---- MODULE Spec2Model ----
(***************************************************************************)
(* A model of expert_intelligence_toolbox/geographic.py.                   *)
(*                                                                         *)
(* Spec    : the two CSV geocoding scripts, convert_string_to_coordinates  *)
(*           and convert_coordinates_to_address.                           *)
(* GeoSpec : the boundary functions, convert_string_to_boundary,           *)
(*           convert_string_to_uk_geog and convert_list_to_uk_geog.        *)
(*                                                                         *)
(* The external services (Nominatim, Overpass) are the environment: each   *)
(* request's outcome is drawn from a small set when the request is made.   *)
(***************************************************************************)
EXTENDS Integers, Sequences, FiniteSets, TLC

VARIABLES
    call,               \* the function being run
    pc,                 \* its position
    path_to_input_csv,  \* the path argument, a sequence of characters
    input_csv,          \* the data rows of the input file
    output_csv,         \* the lines of the file at path_to_output_csv
    prior_csv,          \* history: the output file's lines before the call
    input_read,         \* whether the input file has been opened or read
    i,                  \* the loop index (0-based, as in the code)
    output_addresses,   \* the one-row frame built for the current row
    replies,            \* history: the service's outcome for each request
    events,             \* history: requests and pauses in the order they happen
    locations_list,     \* convert_list_to_uk_geog's argument
    output_geog,        \* the output_geog argument
    return_geometry,    \* convert_string_to_boundary's argument
    all_results,        \* the five all_results_* frames of convert_list_to_uk_geog
    location,           \* the location argument of the single-location functions
    stdout,             \* the messages printed about skipped locations
    result,             \* what the call returned
    earlier             \* history: the call made before this one, if any

vars == << call, pc, path_to_input_csv, input_csv, output_csv, prior_csv,
           input_read, i, output_addresses, replies, events,
           locations_list, output_geog, return_geometry, all_results,
           location, stdout, result, earlier >>

csvVars == << path_to_input_csv, input_csv, output_csv, prior_csv, input_read,
              output_addresses, events >>
geoVars == << locations_list, output_geog, return_geometry, all_results,
              location, stdout, result >>

\* ------------------------------------------------------------------ bounds

\* The most data rows an input CSV holds.
MaxRows == 2

\* ----------------------------------------------------------------- helpers

Last(q) == q[Len(q)]

Max(S) == CHOOSE m \in S : \A k \in S : k <= m

SeqsUpTo(S, n) == UNION { [1..k -> S] : k \in 0..n }

\* ------------------------------------------------- the input path argument

Dot == "."

\* str.split("."): the pieces between the dots, empty pieces kept.
RECURSIVE SplitAcc(_, _, _)
SplitAcc(s, cur, acc) ==
    IF s = << >> THEN Append(acc, cur)
    ELSE IF Head(s) = Dot THEN SplitAcc(Tail(s), << >>, Append(acc, cur))
    ELSE SplitAcc(Tail(s), Append(cur, Head(s)), acc)

Split(s) == SplitAcc(s, << >>, << >>)

\* A plausible slip: the piece after the first dot instead of the last one.
ExtensionOkFirstPiece(path) ==
    LET pieces == Split(path)
    IN  pieces[IF Len(pieces) > 1 THEN 2 ELSE 1] \in { <<"c", "s", "v">> }

\* path_to_input_csv.split(".")[-1] not in ["csv"]  (negated: the path passes)
ExtensionOk(path) == Last(Split(path)) \in { <<"c", "s", "v">> }

\* The paths tried: a.csv  .csv  csv  a.b.csv  a.txt  a.csv.bak  a.CSV  acsv  a.  (empty)
Paths ==
    { <<"a", ".", "c", "s", "v">>,
      <<".", "c", "s", "v">>,
      <<"c", "s", "v">>,
      <<"a", ".", "b", ".", "c", "s", "v">>,
      <<"a", ".", "t", "x", "t">>,
      <<"a", ".", "c", "s", "v", ".", "b", "a", "k">>,
      <<"a", ".", "C", "S", "V">>,
      <<"a", "c", "s", "v">>,
      <<"a", ".">>,
      << >> }

\* ------------------------------------------------------- the output file

\* What the output file may hold before the call.
PriorContents == { << >>, << [kind |-> "stale"] >> }

\* The header line DataFrame.to_csv writes for the output_addresses frame.
S2C_Header ==
    [kind |-> "header",
     cols |-> <<"location_name", "long", "lat", "wkt", "address_exact">>]

\* A plausible slip: every row appended, the first one too.
ToCsvAlwaysAppend(file, frame, mode, header) ==
    file \o (IF header THEN << S2C_Header >> ELSE << >>) \o << frame >>

\* DataFrame.to_csv(path, mode=..., header=..., index=False) of a one-row frame:
\* mode 'w+' truncates the file, mode 'a' keeps what it holds.
ToCsv(file, frame, mode, header) ==
    (IF mode = "w+" THEN << >> ELSE file)
        \o (IF header THEN << S2C_Header >> ELSE << >>) \o << frame >>

\* ------------------------------------------------------------- Nominatim

\* What geolocator.geocode gives for one request: a Location, None, or an error.
GeocodeOutcomes ==
    { [kind |-> "found", latitude |-> 51, longitude |-> 0, address |-> "London, UK"],
      [kind |-> "found", latitude |-> 48, longitude |-> 2, address |-> "Paris, FR"],
      [kind |-> "none"],
      [kind |-> "raise", exc |-> "GeocoderTimedOut", msg |-> "Service timed out"] }

\* What geolocator.reverse gives for one request.
ReverseOutcomes ==
    { [kind |-> "found", address |-> "1 High St"],
      [kind |-> "none"],
      [kind |-> "raise", exc |-> "GeocoderTimedOut", msg |-> "Service timed out"] }

\* The exception the try block ends with, if any: the service's own error, or
\* the AttributeError of reading .longitude of None.
Raised(o) ==
    IF o.kind = "raise" THEN [exc |-> o.exc, msg |-> o.msg]
    ELSE IF o.kind = "none"
         THEN [exc |-> "AttributeError",
               msg |-> "'NoneType' object has no attribute 'longitude'"]
         ELSE [exc |-> "", msg |-> ""]

\* A plausible slip: only the geocoder's own errors are caught.
CaughtGeocoderOnly(exc) == exc \in {"GeocoderTimedOut"}

\* except Exception as e
Caught(exc) == exc \in {"GeocoderTimedOut", "AttributeError"}

\* locations.iloc[i].to_string(index=False) of a one-column row
to_string(row) == row.LOCATIONS

\* Point(x, y)
Point(x, y) == [x |-> x, y |-> y]

\* The frame of a matched row.
FoundFrame(row, loc) ==
    [kind |-> "row",
     location_name |-> to_string(row),
     long |-> loc.latitude,
     lat |-> loc.latitude,
     wkt |-> Point(loc.longitude, loc.latitude),
     address_exact |-> loc.address]

\* The frame of a row whose request failed.
ErrorFrame(row, e) ==
    [kind |-> "row",
     location_name |-> to_string(row),
     long |-> "",
     lat |-> "",
     wkt |-> "",
     address_exact |-> e.msg]

\* --------------------------------------------- convert_string_to_coordinates

S2C == "convert_string_to_coordinates"

S2C_Rows == { [LOCATIONS |-> "London"], [LOCATIONS |-> "Paris"] }

S2C_Validate ==
    /\ call = S2C /\ pc = "validate"
    /\ pc' = IF ExtensionOk(path_to_input_csv) THEN "read" ELSE "raised"
    /\ UNCHANGED << call, earlier, i, replies, csvVars, geoVars >>

\* geolocator = Nominatim(...); locations = pd.read_csv(path_to_input_csv)
S2C_Read ==
    /\ call = S2C /\ pc = "read"
    /\ input_read' = TRUE
    /\ i' = 0
    /\ pc' = "loop"
    /\ UNCHANGED << call, earlier, replies, path_to_input_csv, input_csv, output_csv,
                    prior_csv, output_addresses, events, geoVars >>

\* The try/except of one row: the request, and the frame built from its outcome.
S2C_Geocode ==
    /\ call = S2C /\ pc = "loop" /\ i < Len(input_csv)
    /\ \E o \in GeocodeOutcomes :
          LET row == input_csv[i + 1]
              e   == Raised(o)
          IN  /\ replies' = Append(replies, o)
              /\ events' = Append(events, [ev |-> "request", row |-> i])
              /\ IF e.exc = ""
                 THEN /\ output_addresses' = FoundFrame(row, o)
                      /\ pc' = "write"
                 ELSE IF Caught(e.exc)
                 THEN /\ output_addresses' = ErrorFrame(row, e)
                      /\ pc' = "write"
                 ELSE /\ output_addresses' = output_addresses
                      /\ pc' = "aborted"
    /\ UNCHANGED << call, earlier, i, path_to_input_csv, input_csv, output_csv, prior_csv,
                    input_read, geoVars >>

\* output_addresses.to_csv(path_to_output_csv, mode=..., header=..., index=False)
S2C_Write ==
    /\ call = S2C /\ pc = "write"
    /\ output_csv' = ToCsv(output_csv, output_addresses,
                           IF i = 0 THEN "w+" ELSE "a", i = 0)
    /\ pc' = "sleep"
    /\ UNCHANGED << call, earlier, i, replies, path_to_input_csv, input_csv, prior_csv,
                    input_read, output_addresses, events, geoVars >>

\* A plausible slip: the pause taken inside the try block, so only after a match.
S2C_SleepOnSuccessOnly ==
    /\ call = S2C /\ pc = "sleep"
    /\ events' = IF Last(replies).kind = "found"
                 THEN Append(events, [ev |-> "pause", row |-> i])
                 ELSE events
    /\ i' = i + 1
    /\ pc' = "loop"
    /\ UNCHANGED << call, earlier, replies, path_to_input_csv, input_csv, output_csv,
                    prior_csv, input_read, output_addresses, geoVars >>

\* time.sleep(1), and the loop's next index
S2C_Sleep ==
    /\ call = S2C /\ pc = "sleep"
    /\ events' = Append(events, [ev |-> "pause", row |-> i])
    /\ i' = i + 1
    /\ pc' = "loop"
    /\ UNCHANGED << call, earlier, replies, path_to_input_csv, input_csv, output_csv,
                    prior_csv, input_read, output_addresses, geoVars >>

\* The loop is over: print('Program has finished running')
S2C_Finish ==
    /\ call = S2C /\ pc = "loop" /\ i = Len(input_csv)
    /\ pc' = "done"
    /\ UNCHANGED << call, earlier, i, replies, csvVars, geoVars >>

\* -------------------------------------------- convert_coordinates_to_address

C2A == "convert_coordinates_to_address"

C2A_Rows ==
    { [location |-> "Place A", lat |-> "40.712776", long |-> "-74.005974"],
      [location |-> "Place B", lat |-> "51.5074", long |-> "-0.1278"] }

\* The header line writer.writeheader() writes.
C2A_Header ==
    [kind |-> "header", cols |-> <<"location", "lat", "long", "output_address">>]

\* str(address) of what the try/except left in address
Str(o) ==
    IF o.kind = "found" THEN o.address
    ELSE IF o.kind = "none" THEN "None"
    ELSE o.msg

C2A_Validate ==
    /\ call = C2A /\ pc = "validate"
    /\ pc' = IF ExtensionOk(path_to_input_csv) THEN "open" ELSE "raised"
    /\ UNCHANGED << call, earlier, i, replies, csvVars, geoVars >>

\* with open(input, 'r'), open(output, 'w'): ...; writer.writeheader()
C2A_Open ==
    /\ call = C2A /\ pc = "open"
    /\ input_read' = TRUE
    /\ output_csv' = << C2A_Header >>
    /\ i' = 0
    /\ pc' = "loop"
    /\ UNCHANGED << call, earlier, replies, path_to_input_csv, input_csv, prior_csv,
                    output_addresses, events, geoVars >>

\* A plausible slip: lat and long written into each other's column.
C2A_OutRowSwapped(row, o) ==
    [kind |-> "row", location |-> row.location, lat |-> row.long,
     long |-> row.lat, output_address |-> Str(o)]

\* The dict given to writer.writerow
C2A_OutRow(row, o) ==
    [kind |-> "row", location |-> row.location, lat |-> row.lat,
     long |-> row.long, output_address |-> Str(o)]

\* One row of the reader: the request, its try/except, and writer.writerow
C2A_Row ==
    /\ call = C2A /\ pc = "loop" /\ i < Len(input_csv)
    /\ \E o \in ReverseOutcomes :
          /\ replies' = Append(replies, o)
          /\ events' = Append(events, [ev |-> "request", row |-> i])
          /\ IF o.kind = "raise" /\ ~Caught(o.exc)
             THEN /\ pc' = "aborted"
                  /\ UNCHANGED << output_csv, i >>
             ELSE /\ output_csv' = Append(output_csv, C2A_OutRow(input_csv[i + 1], o))
                  /\ i' = i + 1
                  /\ pc' = "loop"
    /\ UNCHANGED << call, earlier, path_to_input_csv, input_csv, prior_csv, input_read,
                    output_addresses, geoVars >>

\* The reader is exhausted: the files are closed, print("Conversion complete.")
C2A_Close ==
    /\ call = C2A /\ pc = "loop" /\ i = Len(input_csv)
    /\ pc' = "done"
    /\ UNCHANGED << call, earlier, i, replies, csvVars, geoVars >>

\* ---------------------------------------------------- the CSV specification

GeoIdle ==
    /\ locations_list = << >>
    /\ output_geog = ""
    /\ return_geometry = TRUE
    /\ all_results = << >>
    /\ location = ""
    /\ stdout = << >>
    /\ result = [kind |-> "pending"]

Init ==
    /\ call \in {S2C, C2A}
    /\ pc = "validate"
    /\ path_to_input_csv \in Paths
    /\ input_csv \in SeqsUpTo(IF call = S2C THEN S2C_Rows ELSE C2A_Rows, MaxRows)
    /\ prior_csv \in PriorContents
    /\ output_csv = prior_csv
    /\ input_read = FALSE
    /\ i = 0
    /\ output_addresses = [kind |-> "none"]
    /\ replies = << >>
    /\ events = << >>
    /\ earlier = << >>
    /\ GeoIdle

Next ==
    \/ S2C_Validate
    \/ S2C_Read
    \/ S2C_Geocode
    \/ S2C_Write
    \/ S2C_Sleep
    \/ S2C_Finish
    \/ C2A_Validate
    \/ C2A_Open
    \/ C2A_Row
    \/ C2A_Close

Spec == Init /\ [][Next]_vars

\* ============================================================ boundaries

\* The most locations in locations_list.
MaxLocations == 2

\* Coordinates are integers, in units of 1/32 of a degree: every midpoint of
\* a 15-bit geohash bisection is then an integer.
Deg(d) == d * 32

\* ---------------------------------------------------------------- geohash

\* The precision argument of geolib.geohash.encode.
GeohashPrecision == 3

Base32 ==
    << "0", "1", "2", "3", "4", "5", "6", "7", "8", "9", "b", "c", "d", "e", "f", "g",
       "h", "j", "k", "m", "n", "p", "q", "r", "s", "t", "u", "v", "w", "x", "y", "z" >>

\* The bisection of geolib.geohash.encode: n bits, longitude and latitude in
\* turn, longitude first; a bit is 1 when the value is at or above the midpoint.
RECURSIVE Bisect(_, _, _, _, _, _, _, _)
Bisect(lat, lon, lat_min, lat_max, lon_min, lon_max, even_bit, n) ==
    IF n = 0 THEN << >>
    ELSE IF even_bit
    THEN LET lon_mid == (lon_min + lon_max) \div 2
         IN  IF lon >= lon_mid
             THEN << 1 >> \o Bisect(lat, lon, lat_min, lat_max, lon_mid, lon_max, FALSE, n - 1)
             ELSE << 0 >> \o Bisect(lat, lon, lat_min, lat_max, lon_min, lon_mid, FALSE, n - 1)
    ELSE LET lat_mid == (lat_min + lat_max) \div 2
         IN  IF lat >= lat_mid
             THEN << 1 >> \o Bisect(lat, lon, lat_mid, lat_max, lon_min, lon_max, TRUE, n - 1)
             ELSE << 0 >> \o Bisect(lat, lon, lat_min, lat_mid, lon_min, lon_max, TRUE, n - 1)

\* Five bits make one base-32 character.
RECURSIVE BitsToChars(_)
BitsToChars(bits) ==
    IF Len(bits) < 5 THEN << >>
    ELSE << Base32[16 * bits[1] + 8 * bits[2] + 4 * bits[3] + 2 * bits[4] + bits[5] + 1] >>
            \o BitsToChars(SubSeq(bits, 6, Len(bits)))

\* geolib.geohash.encode(lat, lon, precision): latitude is the first parameter.
encode(lat, lon, precision) ==
    BitsToChars(Bisect(lat, lon, Deg(-90), Deg(90), Deg(-180), Deg(180), TRUE, 5 * precision))

\* The geohash column of a row r of coordinates_df, with the arguments in the
\* order the code passes them: encode(r["lon"], r["lat"], 3).
RowGeohash(r) == encode(r.lon, r.lat, GeohashPrecision)

\* --------------------------------------------------------------- geometry

\* A convex geometry is the set of the points that span it.

\* The cross product (b - a) x (c - a).
Orient(a, b, c) == (b.x - a.x) * (c.y - a.y) - (b.y - a.y) * (c.x - a.x)

Between(u, v, w) == (v <= u /\ u <= w) \/ (w <= u /\ u <= v)

OnSegment(p, a, b) ==
    Orient(a, b, p) = 0 /\ Between(p.x, a.x, b.x) /\ Between(p.y, a.y, b.y)

InTriangle(p, a, b, c) ==
    LET d1 == Orient(a, b, p)
        d2 == Orient(b, c, p)
        d3 == Orient(c, a, p)
    IN  /\ Orient(a, b, c) # 0
        /\ \/ (d1 >= 0 /\ d2 >= 0 /\ d3 >= 0)
           \/ (d1 <= 0 /\ d2 <= 0 /\ d3 <= 0)

\* p lies in the convex hull of the points S.
InConv(p, S) ==
    \/ \E a, b \in S : OnSegment(p, a, b)
    \/ \E a, b, c \in S : InTriangle(p, a, b, c)

Opposite(u, v) == (u > 0 /\ v < 0) \/ (u < 0 /\ v > 0)

\* The segments a1-a2 and b1-b2 cross in a point interior to both.
Crosses(a1, a2, b1, b2) ==
    /\ Opposite(Orient(a1, a2, b1), Orient(a1, a2, b2))
    /\ Opposite(Orient(b1, b2, a1), Orient(b1, b2, a2))

\* The 'intersects' predicate of the spatial join, for convex geometries.
Intersects(A, B) ==
    \/ \E a \in A : InConv(a, B)
    \/ \E b \in B : InConv(b, A)
    \/ \E a1, a2 \in A, b1, b2 \in B : Crosses(a1, a2, b1, b2)

\* GeoSeries.convex_hull of a group's points: the corners of the hull.
convex_hull(P) == { p \in P : ~InConv(p, P \ {p}) }

\* --------------------------------------------------------------- Overpass

Node(id, lat, lon) == [type |-> "node", id |-> id, lat |-> lat, lon |-> lon]

Relation == [type |-> "relation", id |-> 100, tags |-> "type=boundary"]
Way == [type |-> "way", id |-> 200, nodes |-> <<1, 2, 3>>]
TaggedNode == [type |-> "node", id |-> 9, lat |-> 1646, lon |-> -12, tags |-> "place=city"]

\* Three nodes of one geohash cell (about 51.5N 0.5W), two of a second cell
\* (about 53N 3.3W), and two at 37.5N west of 90W, of two different cells.
N1 == Node(1, 1645, -10)
N2 == Node(2, 1650, -30)
N3 == Node(3, 1660, -5)
N4 == Node(4, 1700, -100)
N5 == Node(5, 1705, -110)
N6 == Node(6, 1200, -3000)
N7 == Node(7, 1200, -3200)

\* What overpass.query gives: it raises, or r.toJSON()['elements'] is a list.
Responses ==
    { [kind |-> "raise"],
      [kind |-> "ok", elements |-> << >>],
      [kind |-> "ok", elements |-> << Relation, Way >>],
      [kind |-> "ok", elements |-> << Relation, Way, TaggedNode, N1, N2, N3 >>],
      [kind |-> "ok", elements |-> << Relation, N1, N4, N2, N5, N3 >>],
      [kind |-> "ok", elements |-> << Relation, N6, N7 >>] }

\* ------------------------------------------------------- table operations

RECURSIVE Concat(_)
Concat(ss) == IF ss = << >> THEN << >> ELSE Head(ss) \o Concat(Tail(ss))

Range(q) == { q[k] : k \in 1..Len(q) }

\* DataFrame.drop_duplicates(): the first occurrence of each row is kept.
RECURSIVE drop_duplicates(_)
drop_duplicates(q) ==
    IF q = << >> THEN << >>
    ELSE LET front == drop_duplicates(SubSeq(q, 1, Len(q) - 1))
         IN  IF Last(q) \in Range(front) THEN front ELSE Append(front, Last(q))

\* pd.merge(left, right, on=key, how='left'): every left row with every right
\* row of the same key, or with nulls when there is none.
merge(left, right, key, nulls) ==
    Concat([k \in 1..Len(left) |->
        LET Same(r) == r[key] = left[k][key]
            matches == SelectSeq(right, Same)
        IN  IF matches = << >> THEN << left[k] @@ nulls >>
            ELSE [j \in 1..Len(matches) |-> left[k] @@ matches[j]]])

\* The rows of a table with one more column of a constant value.
WithColumn(q, col, v) == [k \in 1..Len(q) |-> q[k] @@ (col :> v)]

\* -------------------------------------------------- clustering into polygons

\* filtered = [i for i in r.toJSON()['elements'] if 'tags' not in i.keys()]
Filtered(elements) ==
    LET NoTags(e) == "tags" \notin DOMAIN e
    IN  SelectSeq(elements, NoTags)

\* coordinates_df[coordinates_df['type'] == 'node'], with its geohash column
CoordinatesDf(elements) ==
    LET IsNode(e) == e.type = "node"
        nodes == SelectSeq(Filtered(elements), IsNode)
    IN  [k \in 1..Len(nodes) |-> nodes[k] @@ ("geohash" :> RowGeohash(nodes[k]))]

\* The position of a base-32 character; geohashes sort by it.
CharIndex(c) == CHOOSE k \in 1..Len(Base32) : Base32[k] = c

HashLess(g, h) ==
    \E k \in 1..Len(g) :
        /\ \A j \in 1..(k - 1) : g[j] = h[j]
        /\ CharIndex(g[k]) < CharIndex(h[k])

RECURSIVE SortedHashes(_)
SortedHashes(H) ==
    IF H = {} THEN << >>
    ELSE LET least == CHOOSE g \in H : \A h \in H \ {g} : HashLess(g, h)
         IN  << least >> \o SortedHashes(H \ {least})

\* gdf.dissolve(by="geohash", aggfunc={"type": "first", "id": "count"}) with
\* the geometry replaced by its convex hull: one row per geohash, in key order.
Polygons(coords) ==
    LET keys == SortedHashes({ coords[k].geohash : k \in 1..Len(coords) })
    IN  [n \in 1..Len(keys) |->
            LET group == { k \in 1..Len(coords) : coords[k].geohash = keys[n] }
            IN  [geohash  |-> keys[n],
                 geometry |-> convex_hull({ Point(coords[k].lon, coords[k].lat) : k \in group }),
                 type     |-> "node",
                 id       |-> Cardinality(group)]]

\* The statements between the query and the join raise when no untagged
\* element is left (the frame has no 'type' column) and when none of them is
\* a node (the frame has no rows, and no 'lon' column to build points from).
ClusteringRaises(elements) == CoordinatesDf(elements) = << >>

\* ------------------------------------------------- convert_string_to_boundary

S2B == "convert_string_to_boundary"

Locations == { "Leeds", "York" }

\* The whole function: the query, the clustering, and the return.
S2B_Run ==
    /\ call = S2B /\ pc = "call"
    /\ \E r \in Responses :
          /\ replies' = << r >>
          /\ IF r.kind = "raise" \/ ClusteringRaises(r.elements)
             THEN /\ result' = [kind |-> "raised"]
                  /\ pc' = "raised"
             ELSE /\ result' = IF return_geometry = TRUE
                               THEN [kind |-> "polygons",
                                     rows |-> Polygons(CoordinatesDf(r.elements))]
                               ELSE [kind |-> "coordinates",
                                     rows |-> CoordinatesDf(r.elements)]
                  /\ pc' = "done"
    /\ UNCHANGED << call, earlier, i, csvVars, locations_list, output_geog, return_geometry,
                    all_results, location, stdout >>

\* ------------------------------------------------ the local statistical files

Rect(lat_lo, lat_hi, lon_lo, lon_hi) ==
    { Point(lon_lo, lat_lo), Point(lon_hi, lat_lo),
      Point(lon_lo, lat_hi), Point(lon_hi, lat_hi) }

\* gpd.read_file(lsoa_boundary_files_path)[['LSOA21CD', 'geometry']], in the
\* coordinates to_crs gives it.  E01 and E02 lie over the first cluster of
\* nodes, E03 over the second, E04 over none.
lsoa_boundary_file ==
    << [LSOA21CD |-> "E01", geometry |-> Rect(1640, 1652, -35, -8)],
       [LSOA21CD |-> "E02", geometry |-> Rect(1655, 1665, -20, 0)],
       [LSOA21CD |-> "E03", geometry |-> Rect(1698, 1710, -115, -95)],
       [LSOA21CD |-> "E04", geometry |-> Rect(1500, 1510, 0, 10)] >>

LookupRow(lsoa, lsoa_nm, msoa, msoa_nm, la, la_nm) ==
    [LSOA21CD |-> lsoa, LSOA21NM |-> lsoa_nm, MSOA21CD |-> msoa,
     MSOA21NM |-> msoa_nm, LAD22CD |-> la, LAD22NM |-> la_nm]

\* pd.read_csv(lsoa_msoa_la_lookup_path, usecols=[...]): the lookup has one
\* row per output area, so an LSOA of two output areas (E01) has two rows.
lsoa_msoa_la_lookup ==
    << LookupRow("E01", "City 001A", "M01", "City 001", "LA1", "City"),
       LookupRow("E01", "City 001A", "M01", "City 001", "LA1", "City"),
       LookupRow("E02", "City 002A", "M02", "City 002", "LA1", "City"),
       LookupRow("E03", "Dale 001A", "M03", "Dale 001", "LA2", "Dale"),
       LookupRow("E04", "Dale 001B", "M03", "Dale 001", "LA2", "Dale") >>

NoLookup ==
    [LSOA21NM |-> "NaN", MSOA21CD |-> "NaN", MSOA21NM |-> "NaN",
     LAD22CD |-> "NaN", LAD22NM |-> "NaN"]

\* lsoa_boundary_file.merge(lsoa_msoa_la_lookup[...], on 'LSOA21CD', how='left')
lsoa_boundary_file_joined ==
    merge(lsoa_boundary_file, lsoa_msoa_la_lookup, "LSOA21CD", NoLookup)

\* The columns C of a table.
Cols(q, C) == [k \in 1..Len(q) |-> [c \in C |-> q[k][c]]]

\* gpd.sjoin(left, right, how='inner', predicate='intersects'): a row for
\* every left row and right row whose geometries intersect, with the left
\* row's columns and geometry and the right row's other columns.
sjoin(left, right) ==
    Concat([k \in 1..Len(left) |->
        LET Meets(n) == Intersects(left[k].geometry, right[n].geometry)
            hits == SelectSeq([n \in 1..Len(right) |-> n], Meets)
        IN  [j \in 1..Len(hits) |-> left[k] @@ right[hits[j]]]])

\* polygons as convert_string_to_uk_geog joins them: indexed by geohash.
IndexedByGeohash(polygons) ==
    [n \in 1..Len(polygons) |->
        [index_right |-> polygons[n].geohash, geometry |-> polygons[n].geometry,
         type |-> polygons[n].type, id |-> polygons[n].id]]

\* polygons.drop(columns=["id", "type"]).reset_index(): geohash is a column
\* and the index counts from 0.
ResetIndex(polygons) ==
    [n \in 1..Len(polygons) |->
        [index_right |-> n - 1, geohash |-> polygons[n].geohash,
         geometry |-> polygons[n].geometry]]

unique_lsoa_codes(join_result) == drop_duplicates(Cols(join_result, {"LSOA21CD", "LSOA21NM"}))
unique_msoa_codes(join_result) == drop_duplicates(Cols(join_result, {"MSOA21CD", "MSOA21NM"}))
unique_la_codes(join_result) == drop_duplicates(Cols(join_result, {"LAD22CD", "LAD22NM"}))

OutputGeogs == { "lsoa", "msoa", "la", "overview", "raw" }

\* --------------------------------------------------- convert_string_to_uk_geog

S2U == "convert_string_to_uk_geog"

\* The join of convert_string_to_uk_geog for a response's elements.
S2U_JoinResult(elements) ==
    sjoin(lsoa_boundary_file_joined, IndexedByGeohash(Polygons(CoordinatesDf(elements))))

\* The if/elif chain at the end of convert_string_to_uk_geog.  The 'overview'
\* branch builds a frame and returns nothing; building a frame from a dict of
\* frames may itself raise.
S2U_Returns(join_result) ==
    IF output_geog = "lsoa"
    THEN { [kind |-> "table", rows |-> unique_lsoa_codes(join_result)] }
    ELSE IF output_geog = "msoa"
    THEN { [kind |-> "table", rows |-> unique_msoa_codes(join_result)] }
    ELSE IF output_geog = "la"
    THEN { [kind |-> "table", rows |-> unique_la_codes(join_result)] }
    ELSE IF output_geog = "overview"
    THEN { [kind |-> "None"], [kind |-> "raised", at |-> "overview"] }
    ELSE IF output_geog = "raw"
    THEN { [kind |-> "table", rows |-> join_result] }
    ELSE { [kind |-> "None"] }

\* The whole function: nothing in it is caught.
S2U_Run ==
    /\ call = S2U /\ pc = "call"
    /\ \E r \in Responses, join_raises \in BOOLEAN :
          /\ replies' = << r >>
          /\ IF r.kind = "raise"
             THEN result' = [kind |-> "raised", at |-> "query"]
             ELSE IF ClusteringRaises(r.elements)
             THEN result' = [kind |-> "raised", at |-> "clustering"]
             ELSE IF join_raises
             THEN result' = [kind |-> "raised", at |-> "join"]
             ELSE result' \in S2U_Returns(S2U_JoinResult(r.elements))
          /\ pc' = IF result'.kind = "raised" THEN "raised" ELSE "done"
    /\ UNCHANGED << call, earlier, i, csvVars, locations_list, output_geog, return_geometry,
                    all_results, location, stdout >>

\* ----------------------------------------------------- convert_list_to_uk_geog

L2U == "convert_list_to_uk_geog"

\* The empty all_results_* frames
EmptyResults ==
    [lsoa |-> << >>, msoa |-> << >>, la |-> << >>, overview |-> << >>, raw |-> << >>]

\* The join of convert_list_to_uk_geog for a response's elements.
L2U_JoinResult(elements) ==
    sjoin(lsoa_boundary_file_joined, ResetIndex(Polygons(CoordinatesDf(elements))))

\* overview_df: the LA frame merged with the MSOA frame and then with the
\* LSOA frame, both on 'input_location'.
overview_df(la, msoa, lsoa) ==
    merge(merge(la, msoa, "input_location", [MSOA21CD |-> "NaN", MSOA21NM |-> "NaN"]),
          lsoa, "input_location", [LSOA21CD |-> "NaN", LSOA21NM |-> "NaN"])

\* The frames after the try block got through for loc: the frame output_geog
\* names has the location's rows concatenated, the others are as they were.
Accumulated(all, loc, join_result) ==
    LET lsoa == WithColumn(unique_lsoa_codes(join_result), "input_location", loc)
        msoa == WithColumn(unique_msoa_codes(join_result), "input_location", loc)
        la   == WithColumn(unique_la_codes(join_result), "input_location", loc)
        raw  == WithColumn(join_result, "input_location", loc)
    IN  [lsoa     |-> IF output_geog = "lsoa" THEN all.lsoa \o lsoa ELSE all.lsoa,
         msoa     |-> IF output_geog = "msoa" THEN all.msoa \o msoa ELSE all.msoa,
         la       |-> IF output_geog = "la" THEN all.la \o la ELSE all.la,
         overview |-> IF output_geog = "overview"
                      THEN all.overview \o overview_df(la, msoa, lsoa)
                      ELSE all.overview,
         raw      |-> IF output_geog = "raw" THEN all.raw \o raw ELSE all.raw]

\* The statements before the loop: the empty frames and the two files.
L2U_Setup ==
    /\ call = L2U /\ pc = "call"
    /\ all_results' = EmptyResults
    /\ i' = 0
    /\ pc' = "loop"
    /\ UNCHANGED << call, earlier, replies, csvVars, locations_list, output_geog,
                    return_geometry, location, stdout, result >>

\* One iteration of the loop: the query, which no try block covers, then the
\* try block, whose failure is printed and passed over.
L2U_Location ==
    /\ call = L2U /\ pc = "loop" /\ i < Len(locations_list)
    /\ location' = locations_list[i + 1]
    /\ \E r \in Responses :
          IF r.kind = "raise"
          THEN /\ replies' = Append(replies, r @@ ("join_raises" :> FALSE))
               /\ result' = [kind |-> "raised", at |-> "query"]
               /\ pc' = "raised"
               /\ UNCHANGED << i, all_results, stdout >>
          ELSE \E join_raises \in BOOLEAN :
               /\ replies' = Append(replies, r @@ ("join_raises" :> join_raises))
               /\ i' = i + 1
               /\ IF ClusteringRaises(r.elements) \/ join_raises
                  THEN /\ stdout' = Append(stdout,
                              << "Error. Likely no polygons found for ", location' >>)
                       /\ UNCHANGED << pc, all_results, result >>
                  ELSE /\ all_results' = Accumulated(all_results, location',
                                                     L2U_JoinResult(r.elements))
                       /\ UNCHANGED << pc, stdout, result >>
    /\ UNCHANGED << call, earlier, csvVars, locations_list, output_geog, return_geometry >>

\* The if/elif chain after the loop.
L2U_Return ==
    /\ call = L2U /\ pc = "loop" /\ i = Len(locations_list)
    /\ result' = IF output_geog \in DOMAIN all_results
                 THEN [kind |-> "table", rows |-> all_results[output_geog]]
                 ELSE [kind |-> "None"]
    /\ pc' = "done"
    /\ UNCHANGED << call, earlier, i, replies, csvVars, locations_list, output_geog,
                    return_geometry, all_results, location, stdout >>

\* ----------------------------------------------- the boundary specification

CsvIdle ==
    /\ path_to_input_csv = << >>
    /\ input_csv = << >>
    /\ output_csv = << >>
    /\ prior_csv = << >>
    /\ input_read = FALSE
    /\ output_addresses = [kind |-> "none"]
    /\ events = << >>

GeoInit ==
    /\ call \in {S2B, S2U, L2U}
    /\ pc = "call"
    /\ location \in (IF call = L2U THEN {""} ELSE Locations)
    /\ locations_list \in (IF call = L2U THEN SeqsUpTo(Locations, MaxLocations) ELSE {<< >>})
    /\ output_geog \in (IF call = S2B THEN {""} ELSE OutputGeogs)
    /\ return_geometry \in (IF call = S2B THEN BOOLEAN ELSE {TRUE})
    /\ all_results = << >>
    /\ stdout = << >>
    /\ result = [kind |-> "pending"]
    /\ i = 0
    /\ replies = << >>
    /\ earlier = << >>
    /\ CsvIdle

GeoNext ==
    \/ S2B_Run
    \/ S2U_Run
    \/ L2U_Setup
    \/ L2U_Location
    \/ L2U_Return

GeoSpec == GeoInit /\ [][GeoNext]_vars

\* ------------------------------------- one location through both functions

\* A caller that has called convert_string_to_uk_geog(location, ...) calls
\* convert_list_to_uk_geog([location], ...) with the same files and the same
\* output_geog; what the first call was given and returned is kept.
CallListAfterString ==
    /\ call = S2U /\ pc \in {"done", "raised"} /\ earlier = << >>
    /\ earlier' = << [call |-> S2U, location |-> location, output_geog |-> output_geog,
                      reply |-> replies[1], result |-> result] >>
    /\ call' = L2U
    /\ locations_list' = << location >>
    /\ pc' = "call"
    /\ replies' = << >>
    /\ result' = [kind |-> "pending"]
    /\ UNCHANGED << i, csvVars, output_geog, return_geometry, all_results,
                    location, stdout >>

PairInit ==
    /\ call = S2U
    /\ pc = "call"
    /\ location \in Locations
    /\ locations_list = << >>
    /\ output_geog \in OutputGeogs
    /\ return_geometry = TRUE
    /\ all_results = << >>
    /\ stdout = << >>
    /\ result = [kind |-> "pending"]
    /\ i = 0
    /\ replies = << >>
    /\ earlier = << >>
    /\ CsvIdle

PairNext ==
    \/ S2U_Run
    \/ CallListAfterString
    \/ L2U_Setup
    \/ L2U_Location
    \/ L2U_Return

PairSpec == PairInit /\ [][PairNext]_vars

\* ------------------------------------------------- properties of the CSV scripts

\* The text after the last "." of a path (the whole path when it has no ".").
AfterLastDot(path) ==
    LET dots == { k \in 1..Len(path) : path[k] = Dot }
    IN  IF dots = {} THEN path ELSE SubSeq(path, Max(dots) + 1, Len(path))

\* The rows of the current S2C run whose line has been written.
S2C_Written == IF pc = "sleep" THEN i + 1 ELSE i

\* The message of the error a failed geocoding request ends with.
S2C_ErrorMessage(o) ==
    IF o.kind = "raise" THEN o.msg
    ELSE "'NoneType' object has no attribute 'longitude'"

\* C1: in convert_string_to_coordinates no geocoding failure (no match, or a
\* raised error) aborts the run: the failing row's line carries the input text,
\* empty long, lat and wkt and the error message, and the run ends only after
\* every row has been requested and written.
C1_FailedRowsAreReported ==
    call = S2C =>
        /\ pc # "aborted"
        /\ \A k \in 1..S2C_Written :
              replies[k].kind # "found" =>
                  /\ output_csv[k + 1].location_name = input_csv[k].LOCATIONS
                  /\ output_csv[k + 1].long = ""
                  /\ output_csv[k + 1].lat = ""
                  /\ output_csv[k + 1].wkt = ""
                  /\ output_csv[k + 1].address_exact = S2C_ErrorMessage(replies[k])
        /\ pc = "done" =>
              /\ Len(replies) = Len(input_csv)
              /\ S2C_Written = Len(input_csv)

\* C1's case: a raised error on the first row, no match on the second, run finished.
C1_Witness ==
    /\ call = S2C /\ pc = "done"
    /\ Len(replies) = 2
    /\ replies[1].kind = "raise"
    /\ replies[2].kind = "none"
    /\ Len(output_csv) = 3

\* C3: in both CSV scripts a path whose text after the last "." is not "csv"
\* makes the call raise before anything else: the input is not read, no request
\* is issued and the output file keeps its lines.
C3_BadExtensionRaisesFirst ==
    (call \in {S2C, C2A} /\ AfterLastDot(path_to_input_csv) # <<"c", "s", "v">>) =>
        /\ pc \in {"validate", "raised"}
        /\ ~input_read
        /\ replies = << >>
        /\ events = << >>
        /\ output_csv = prior_csv

\* C3's case: convert_coordinates_to_address raised on a bad path while the
\* output file held lines.
C3_Witness ==
    /\ call = C2A /\ pc = "raised"
    /\ AfterLastDot(path_to_input_csv) # <<"c", "s", "v">>
    /\ prior_csv # << >>
    /\ output_csv = prior_csv

\* C4: in convert_string_to_coordinates, once k >= 1 rows are processed the
\* output file is the header line followed by the k rows' lines in input order,
\* each the line of that row's own request; nothing of the file's earlier
\* content remains.
C4_HeaderThenRowsInOrder ==
    (call = S2C /\ S2C_Written >= 1) =>
        /\ Len(output_csv) = S2C_Written + 1
        /\ output_csv[1] = S2C_Header
        /\ \A k \in 1..S2C_Written :
              /\ output_csv[k + 1].kind = "row"
              /\ output_csv[k + 1].location_name = input_csv[k].LOCATIONS
              /\ output_csv[k + 1].address_exact =
                    IF replies[k].kind = "found" THEN replies[k].address
                    ELSE S2C_ErrorMessage(replies[k])

\* C4's case: two rows written over a file that held a stale line.
C4_Witness ==
    /\ call = S2C /\ S2C_Written = 2
    /\ prior_csv # << >>
    /\ Len(output_csv) = 3
    /\ output_csv[2].location_name # output_csv[3].location_name

\* The requests among the first k events.
RequestsBefore(k) == Cardinality({ j \in 1..(k - 1) : events[j].ev = "request" })

\* C5: in convert_string_to_coordinates every request is followed by a pause
\* before the next request, after a failure as after a match, and the requests
\* are issued in input row order.
C5_PauseAfterEveryRequest ==
    call = S2C =>
        /\ \A k \in 1..Len(events) :
              events[k].ev = "request" =>
                  /\ events[k].row = RequestsBefore(k)
                  /\ k < Len(events) =>
                        /\ events[k + 1].ev = "pause"
                        /\ events[k + 1].row = events[k].row
        /\ pc \in {"loop", "done"} /\ events # << >> => Last(events).ev = "pause"

\* C5's case: the first request failed, a pause followed, and a second
\* request was issued.
C5_Witness ==
    /\ call = S2C
    /\ Len(events) >= 3
    /\ replies[1].kind # "found"
    /\ events[1].ev = "request" /\ events[2].ev = "pause" /\ events[3].ev = "request"

\* C7: in convert_string_to_coordinates a matched row's line holds the
\* geocoder's longitude in 'long' and its latitude in 'lat', equal to the x and
\* y of its 'wkt' point, and the matched address in 'address_exact'.
C7_LongLatAreThePoint ==
    call = S2C =>
        \A k \in 1..S2C_Written :
            replies[k].kind = "found" =>
                /\ output_csv[k + 1].long = replies[k].longitude
                /\ output_csv[k + 1].lat = replies[k].latitude
                /\ output_csv[k + 1].wkt.x = output_csv[k + 1].long
                /\ output_csv[k + 1].wkt.y = output_csv[k + 1].lat
                /\ output_csv[k + 1].address_exact = replies[k].address

\* What output_address holds for a reverse-geocoding outcome.
C2A_ExpectedAddress(o) ==
    IF o.kind = "found" THEN o.address
    ELSE IF o.kind = "raise" THEN o.msg
    ELSE "None"

\* C9: in convert_coordinates_to_address the output file is the header followed
\* by one line per processed row in input order, each with the row's location,
\* lat and long unchanged and the request's result or error message; no failed
\* request stops the run, which ends with all n rows written.
C9_EveryRowWrittenUnchanged ==
    call = C2A =>
        /\ pc # "aborted"
        /\ pc \in {"loop", "done"} =>
              /\ Len(output_csv) = i + 1
              /\ Len(replies) = i
              /\ output_csv[1] = C2A_Header
              /\ \A k \in 1..i :
                    /\ output_csv[k + 1].location = input_csv[k].location
                    /\ output_csv[k + 1].lat = input_csv[k].lat
                    /\ output_csv[k + 1].long = input_csv[k].long
                    /\ output_csv[k + 1].output_address = C2A_ExpectedAddress(replies[k])
        /\ pc = "done" => i = Len(input_csv)

\* C9's case: the first request raised, the second succeeded, both lines written.
C9_Witness ==
    /\ call = C2A /\ pc = "done"
    /\ Len(input_csv) = 2
    /\ replies[1].kind = "raise"
    /\ replies[2].kind = "found"
    /\ Len(output_csv) = 3

\* ------------------------------------------- properties of the boundary functions

\* The elements of a response that carry no tags and are nodes.
UntaggedNodes(elements) ==
    { e \in Range(elements) : "tags" \notin DOMAIN e /\ e.type = "node" }

\* The 3-character geohash of a node: of its latitude and longitude.
NodeGeohash(e) == encode(e.lat, e.lon, 3)

\* The k-th location of the list failed: its query raised, it left no
\* untagged node, or the clustering or the join raised.
L2U_Failed(k) ==
    \/ replies[k].kind = "raise"
    \/ UntaggedNodes(replies[k].elements) = {}
    \/ replies[k].join_raises

L2U_FailedInTry(k) == replies[k].kind # "raise" /\ L2U_Failed(k)

\* The rows of the frame output_geog names.
L2U_Selected == all_results[output_geog]

\* C2: in convert_list_to_uk_geog a location whose processing fails at any
\* step (the query included) does not abort the run: it is skipped with a
\* message, contributes no rows, the remaining locations are processed and the
\* accumulated rows are returned.
C2_FailedLocationIsSkipped ==
    (call = L2U /\ pc # "call") =>
        /\ pc # "raised"
        /\ Len(replies) = i
        /\ Len(stdout) = Cardinality({ k \in 1..i : L2U_Failed(k) })
        /\ \A m \in 1..Len(stdout) :
              \E k \in 1..i : L2U_Failed(k) /\ stdout[m][2] = locations_list[k]
        /\ \A n \in 1..Len(L2U_Selected) :
              \E k \in 1..i :
                  ~L2U_Failed(k) /\ L2U_Selected[n].input_location = locations_list[k]
        /\ pc = "done" =>
              /\ i = Len(locations_list)
              /\ result = [kind |-> "table", rows |-> L2U_Selected]

\* The part of C2 that holds of the code: a failure inside the try block is
\* skipped with a message and the loop goes on; a raising query ends the call.
C2_FailureInTryIsSkipped ==
    (call = L2U /\ pc \in {"loop", "done"}) =>
        /\ Len(replies) = i
        /\ Len(stdout) = Cardinality({ k \in 1..i : L2U_FailedInTry(k) })
        /\ \A n \in 1..Len(L2U_Selected) :
              \E k \in 1..i :
                  ~L2U_Failed(k) /\ L2U_Selected[n].input_location = locations_list[k]
        /\ pc = "done" =>
              /\ i = Len(locations_list)
              /\ result = [kind |-> "table", rows |-> L2U_Selected]

\* The code/name pairs of a table, as a set.
Pairs(q, cd, nm) == { << q[k][cd], q[k][nm] >> : k \in 1..Len(q) }

\* C6: convert_string_to_uk_geog, when it gets as far as its return, returns a
\* table for each documented output_geog: the unique LSOA, MSOA or LA
\* code/name pairs of the join, the raw join, or for 'overview' all three pairs.
C6_EveryOptionReturnsItsTable ==
    (call = S2U /\ pc # "call"
        /\ ~(result.kind = "raised" /\ result.at \in {"query", "clustering", "join"})) =>
        LET join_result == S2U_JoinResult(replies[1].elements)
        IN  /\ result.kind = "table"
            /\ output_geog = "lsoa" =>
                  /\ DOMAIN result.rows = 1..Cardinality(Pairs(join_result, "LSOA21CD", "LSOA21NM"))
                  /\ Pairs(result.rows, "LSOA21CD", "LSOA21NM")
                        = Pairs(join_result, "LSOA21CD", "LSOA21NM")
            /\ output_geog = "msoa" =>
                  /\ DOMAIN result.rows = 1..Cardinality(Pairs(join_result, "MSOA21CD", "MSOA21NM"))
                  /\ Pairs(result.rows, "MSOA21CD", "MSOA21NM")
                        = Pairs(join_result, "MSOA21CD", "MSOA21NM")
            /\ output_geog = "la" =>
                  /\ DOMAIN result.rows = 1..Cardinality(Pairs(join_result, "LAD22CD", "LAD22NM"))
                  /\ Pairs(result.rows, "LAD22CD", "LAD22NM")
                        = Pairs(join_result, "LAD22CD", "LAD22NM")
            /\ output_geog = "raw" => result.rows = join_result
            /\ output_geog = "overview" =>
                  /\ Pairs(result.rows, "LSOA21CD", "LSOA21NM")
                        = Pairs(join_result, "LSOA21CD", "LSOA21NM")
                  /\ Pairs(result.rows, "MSOA21CD", "MSOA21NM")
                        = Pairs(join_result, "MSOA21CD", "MSOA21NM")
                  /\ Pairs(result.rows, "LAD22CD", "LAD22NM")
                        = Pairs(join_result, "LAD22CD", "LAD22NM")

\* The part of C6 that holds of the code: the four options other than 'overview'.
C6_OptionsOtherThanOverview == output_geog # "overview" => C6_EveryOptionReturnsItsTable

\* What C8 says of a returned table, for a way hash(_) of giving a node its geohash.
C8_Statement(hash(_)) ==
    (call = S2B /\ pc = "done") =>
        LET used == UntaggedNodes(replies[1].elements)
            rows == result.rows
        IN  IF return_geometry
            THEN /\ result.kind = "polygons"
                 /\ { rows[n].geohash : n \in 1..Len(rows) } = { hash(e) : e \in used }
                 /\ \A n, m \in 1..Len(rows) : rows[n].geohash = rows[m].geohash => n = m
                 /\ \A n \in 1..Len(rows) :
                       LET group == { e \in used : hash(e) = rows[n].geohash }
                       IN  /\ rows[n].id = Cardinality(group)
                           /\ rows[n].geometry = convex_hull({ Point(e.lon, e.lat) : e \in group })
            ELSE /\ result.kind = "coordinates"
                 /\ { [type |-> rows[n].type, id |-> rows[n].id,
                       lat |-> rows[n].lat, lon |-> rows[n].lon] : n \in 1..Len(rows) } = used
                 /\ Len(rows) = Cardinality(used)

\* C8: convert_string_to_boundary uses exactly the untagged node elements,
\* puts each in the group of its 3-character geohash, and returns one convex
\* hull per distinct geohash with the group's node count, or with
\* return_geometry False the node coordinate table.
C8_OnePolygonPerGeohash == C8_Statement(NodeGeohash)

\* The part of C8 that holds of the code: the same with the value the code
\* computes, the geohash of the node's coordinates taken in the other order.
C8_OnePolygonPerComputedHash == C8_Statement(RowGeohash)

\* The iterations of the list that got through for loc and whose join holds LSOA cd.
L2U_Joins(loc, cd) ==
    { k \in 1..Len(replies) :
        /\ ~L2U_Failed(k)
        /\ locations_list[k] = loc
        /\ \E l \in Range(lsoa_boundary_file) :
              /\ l.LSOA21CD = cd
              /\ \E p \in Range(Polygons(CoordinatesDf(replies[k].elements))) :
                    Intersects(l.geometry, p.geometry) }

\* C10: with output_geog 'overview' every row convert_list_to_uk_geog returns
\* is an LSOA that intersects the location's polygons together with the MSOA
\* and LA the lookup gives that LSOA, and each such LSOA is in one row per
\* location.
C10_OverviewRowsAreConsistent ==
    (call = L2U /\ output_geog = "overview" /\ pc = "done") =>
        /\ \A row \in Range(result.rows) :
              /\ L2U_Joins(row.input_location, row.LSOA21CD) # {}
              /\ \E l \in Range(lsoa_msoa_la_lookup) :
                    /\ l.LSOA21CD = row.LSOA21CD /\ l.LSOA21NM = row.LSOA21NM
                    /\ l.MSOA21CD = row.MSOA21CD /\ l.MSOA21NM = row.MSOA21NM
                    /\ l.LAD22CD = row.LAD22CD /\ l.LAD22NM = row.LAD22NM
        /\ \A loc \in Locations, l \in Range(lsoa_boundary_file) :
              Cardinality({ n \in 1..Len(result.rows) :
                              /\ result.rows[n].input_location = loc
                              /\ result.rows[n].LSOA21CD = l.LSOA21CD })
                  = Cardinality(L2U_Joins(loc, l.LSOA21CD))

\* The part of C10 that holds of the code: the LSOA, the MSOA and the LA of a
\* row each belong to the location's join, though not to one another.
C10_OverviewColumnsComeFromTheJoin ==
    (call = L2U /\ output_geog = "overview" /\ pc = "done") =>
        \A row \in Range(result.rows) :
            /\ L2U_Joins(row.input_location, row.LSOA21CD) # {}
            /\ \E l \in Range(lsoa_msoa_la_lookup) :
                  /\ L2U_Joins(row.input_location, l.LSOA21CD) # {}
                  /\ l.MSOA21CD = row.MSOA21CD /\ l.MSOA21NM = row.MSOA21NM
            /\ \E l \in Range(lsoa_msoa_la_lookup) :
                  /\ L2U_Joins(row.input_location, l.LSOA21CD) # {}
                  /\ l.LAD22CD = row.LAD22CD /\ l.LAD22NM = row.LAD22NM

\* ------------------------------- properties of the two functions on one location

\* Both calls are over: the string call is in earlier, the list call has ended.
BothCalled == call = L2U /\ earlier # << >> /\ pc \in {"done", "raised"}

\* Overpass and the libraries behaved for the list call as for the string
\* call: the same response to the same query, and the join raising in both
\* or in neither.
SameAnswers ==
    LET first  == earlier[1]
        second == replies[1]
    IN  /\ second.kind = first.reply.kind
        /\ second.kind = "ok" =>
              /\ second.elements = first.reply.elements
              /\ UntaggedNodes(second.elements) # {} =>
                    (second.join_raises
                        <=> (first.result.kind = "raised" /\ first.result.at = "join"))

\* A table without its input_location column.
WithoutInputLocation(q) ==
    [k \in 1..Len(q) |-> [c \in DOMAIN q[k] \ {"input_location"} |-> q[k][c]]]

\* The list call's table is the string call's with an input_location column.
SameRowsButInputLocation(first, second) ==
    /\ \A k \in 1..Len(second.rows) :
          /\ "input_location" \in DOMAIN second.rows[k]
          /\ second.rows[k].input_location = first.location
    /\ WithoutInputLocation(second.rows) = first.result.rows

\* C11: for every location and output_geog, convert_list_to_uk_geog([location])
\* returns a table exactly when convert_string_to_uk_geog(location) does, and
\* then the same rows with an input_location column added.
C11_ListOfOneAgreesWithString ==
    (BothCalled /\ SameAnswers) =>
        /\ (result.kind = "table") <=> (earlier[1].result.kind = "table")
        /\ result.kind = "table" => SameRowsButInputLocation(earlier[1], result)

\* The part of C11 that holds of the code: when the string call returns a
\* table of LSOA, MSOA or LA pairs, the list call returns the same rows with
\* input_location added; and when the query raises, both calls raise.
C11_AgreeOnUniquePairs ==
    (BothCalled /\ SameAnswers) =>
        /\ (earlier[1].result.kind = "table" /\ output_geog \in {"lsoa", "msoa", "la"}) =>
              /\ result.kind = "table"
              /\ SameRowsButInputLocation(earlier[1], result)
        /\ earlier[1].reply.kind = "raise" =>
              /\ result.kind = "raised"
              /\ earlier[1].result.kind = "raised"

\* Where the two calls part, each case as the code has it: 'overview' gives no
\* table from the string call and one from the list call; a failure after the
\* query raises in the string call and leaves the list call an empty table;
\* 'raw' rows differ in the columns the polygons bring.
C11_WhereTheyPart ==
    (BothCalled /\ SameAnswers /\ earlier[1].reply.kind = "ok") =>
        /\ result.kind = "table"
        /\ output_geog = "overview" => earlier[1].result.kind # "table"
        /\ (earlier[1].result.kind = "raised"
                /\ earlier[1].result.at \in {"clustering", "join"}) => result.rows = << >>
        /\ (output_geog = "raw" /\ earlier[1].result.kind = "table") =>
              /\ Len(result.rows) = Len(earlier[1].result.rows)
              /\ \A k \in 1..Len(result.rows) :
                    /\ result.rows[k].LSOA21CD = earlier[1].result.rows[k].LSOA21CD
                    /\ result.rows[k].geohash = earlier[1].result.rows[k].index_right
                    /\ DOMAIN result.rows[k] # DOMAIN earlier[1].result.rows[k] \cup {"input_location"}

====
